---- MODULE Spec2Model ----
(***************************************************************************)
(* Model of Mumsys_Generic_Manager (src/Mumsys/Generic/Manager.js and its  *)
(* older copy src/Mumsys/Generic_Manager.js): an ordered list of generic   *)
(* items, an id -> position map kept beside it, a loaded flag, and the     *)
(* asynchronous loadItems / saveItem requests whose callbacks change them. *)
(*                                                                         *)
(* JavaScript values are records [t, n, s]: t is the typeof tag, n the     *)
(* payload of a number or of an item reference, s the payload of a string. *)
(* Record equality on these is the === of the code.  Property keys of      *)
(* plain objects are strings: a value used as a key is converted first.    *)
(***************************************************************************)
EXTENDS Integers, Sequences, FiniteSets, TLC

\* Number of item objects that can be alive at once; also caps the list length.
MaxItems == 3
\* Number of saveItem requests that can be in flight at once.
MaxPending == 1
\* Number of loadItems requests that can be in flight at once.
MaxLoads == 2
\* Number of records in the result list of one load response.
MaxRecords == 2
\* Number of times the caller edits an item it got from the manager.
MaxEdits == 1

(***************************************************************************)
(* JavaScript values                                                       *)
(***************************************************************************)
Undefined == [t |-> "undefined", n |-> 0, s |-> ""]
Null == [t |-> "null", n |-> 0, s |-> ""]
Num(k) == [t |-> "number", n |-> k, s |-> ""]
Str(x) == [t |-> "string", n |-> 0, s |-> x]
\* a reference to the Mumsys_Generic_Item in heap slot r
Ref(r) == [t |-> "item", n |-> r, s |-> ""]

Digit == <<"0", "1", "2", "3", "4", "5", "6", "7", "8", "9">>

RECURSIVE NatToString(_)
NatToString(k) ==
    IF k < 10 THEN Digit[k + 1]
    ELSE NatToString(k \div 10) \o Digit[(k % 10) + 1]

\* Number.prototype.toString for integers
NumberToString(k) == IF k < 0 THEN "-" \o NatToString(0 - k) ELSE NatToString(k)

\* The string a value becomes when it is used as a property key: obj[ v ]
ToPropertyKey(v) ==
    CASE v.t = "number" -> NumberToString(v.n)
      [] v.t = "string" -> v.s
      [] v.t = "undefined" -> "undefined"
      [] v.t = "null" -> "null"
      [] OTHER -> "[object Object]"

\* The ids items are created with: absent, 1, "1", "id"
Ids == {Undefined, Num(1), Str("1"), Str("id")}
\* The result.item.id of a save response: absent, or the id the server assigned
ServerIds == {Undefined, Num(1)}

(***************************************************************************)
(* State                                                                   *)
(***************************************************************************)
VARIABLES
    itemList,   \* this.__itemList: sequence of heap slots (item references)
    map,        \* this.__map: property key -> position (0-based) in itemList
    isLoaded,   \* this.__flags.isLoaded
    heap,       \* the Mumsys_Generic_Item objects: slot -> [used, id, modified]
    pending,    \* Transport requests in flight, in dispatch order
    edits,      \* how many times the caller has edited a held item
    last,       \* the call or callback that ran last: [op, args, ret, err]
    loads,      \* history of the loads: how the one started last has fared, and
                \* how many success callbacks of overlapping loads have run
    bp          \* arguments and result of the last _buildParams call

vars == <<itemList, map, isLoaded, heap, pending, edits, last, loads, bp>>

\* Heap slots: every held item, every item of a request in flight, and the one
\* item a call is handed or is creating.
Slots == 1..(MaxItems + MaxPending + 1)
FreeSlot == [used |-> FALSE, id |-> Undefined, modified |-> FALSE]
EmptyMap == [k \in {} |-> 0]

\* Outcome of a call: its arguments (an item is given by its id), what it
\* returned and the Error it threw ("" for none).  The code throws plain Error
\* objects; the tags name the message thrown.
Outcome(op, args, ret, err) == [op |-> op, args |-> args, ret |-> ret, err |-> err]
NoError == ""
DuplicateKey == "DuplicateKey"        \* '"id" (..) is unique and already exists'
InvalidItem == "InvalidArgument"      \* 'Invalid item'
ReservedKey == "InvalidArgument"      \* 'params.item property already defined'
RemoteError == "RemoteProtocolError"  \* thrown by Mumsys.checkJsonRpcResponce

(***************************************************************************)
(* Mumsys_Generic_Item (not part of these sources): get, set, isModified,  *)
(* setModified as the item contract describes them.                        *)
(***************************************************************************)
\* item.get( key ): only the id property is kept; any other key is not set
ItemGet(h, r, key) == IF key = "id" THEN h[r].id ELSE Undefined

\* item.set( 'id', value ): stores the value and flags the item as modified
ItemSetId(h, r, value) == [h EXCEPT ![r].id = value, ![r].modified = TRUE]

\* item.setModified( flag )
ItemSetModified(h, r, flag) == [h EXCEPT ![r].modified = flag]

\* item.isModified()
ItemIsModified(h, r) == h[r].modified

\* new Mumsys_Generic_Item( props ) placed in the first free heap slot
NewSlot(h) == CHOOSE r \in Slots : ~h[r].used /\ \A q \in Slots : q < r => h[q].used
HasFreeSlot(h) == \E r \in Slots : ~h[r].used
NewItem(h, id, modified) ==
    [h EXCEPT ![NewSlot(h)] = [used |-> TRUE, id |-> id, modified |-> modified]]

\* Items nobody can reach any more are collected: those neither in the list
\* nor the subject of a request in flight.  The items that remain are kept in
\* the first slots, in the order in which the list and then the requests first
\* mention them: a slot number is only the identity of an object, so states
\* that differ in slot numbers alone are one state of the program.
RECURSIVE Distinct(_, _)
Distinct(seq, acc) ==
    IF seq = <<>> THEN acc
    ELSE Distinct(Tail(seq),
                  IF \E i \in 1..Len(acc) : acc[i] = Head(seq) THEN acc
                  ELSE Append(acc, Head(seq)))

Mentioned(list, pend) ==
    Distinct(list \o SelectSeq([i \in 1..Len(pend) |-> pend[i].item], LAMBDA r : r # 0),
             <<>>)

Rank(order, r) == IF r = 0 THEN 0 ELSE CHOOSE i \in 1..Len(order) : order[i] = r

Collect(h, list, pend) ==
    LET order == Mentioned(list, pend) IN
    [list |-> [i \in 1..Len(list) |-> Rank(order, list[i])],
     pending |-> [i \in 1..Len(pend) |-> [pend[i] EXCEPT !.item = Rank(order, @)]],
     heap |-> [r \in Slots |-> IF r <= Len(order) THEN h[order[r]] ELSE FreeSlot]]

(***************************************************************************)
(* Plain-object property access on this.__map and this.__itemList          *)
(***************************************************************************)
MapGet(m, v) ==
    IF ToPropertyKey(v) \in DOMAIN m THEN Num(m[ToPropertyKey(v)]) ELSE Undefined

MapSet(m, v, pos) ==
    [k \in DOMAIN m \cup {ToPropertyKey(v)} |->
        IF k = ToPropertyKey(v) THEN pos ELSE m[k]]

\* this.__itemList[ v ]: the element at index v, the length, or undefined
ArrayGet(list, v) ==
    IF \E i \in 0..(Len(list) - 1) : NumberToString(i) = ToPropertyKey(v)
    THEN Ref(list[(CHOOSE i \in 0..(Len(list) - 1) :
                        NumberToString(i) = ToPropertyKey(v)) + 1])
    ELSE IF ToPropertyKey(v) = "length" THEN Num(Len(list))
    ELSE Undefined

(***************************************************************************)
(* Collection operations                                                   *)
(***************************************************************************)
\* addItem( item ), had it entered the id into the map after the push
addItemAfterPush(list, m, h, item) ==
    IF item.t = "item"
    THEN LET id == ItemGet(h, item.n, "id") IN
         IF id # Undefined /\ MapGet(m, id) # Undefined
         THEN [list |-> list, map |-> m, err |-> DuplicateKey]
         ELSE [list |-> Append(list, item.n),
               map |-> IF id # Undefined THEN MapSet(m, id, Len(list) + 1) ELSE m,
               err |-> NoError]
    ELSE [list |-> list, map |-> m, err |-> InvalidItem]

\* addItem( item ): the list, the map and the error after the call
addItem(list, m, h, item) ==
    IF item.t = "item"
    THEN LET id == ItemGet(h, item.n, "id") IN
         IF id # Undefined /\ MapGet(m, id) # Undefined
         THEN [list |-> list, map |-> m, err |-> DuplicateKey]
         ELSE [list |-> Append(list, item.n),
               map |-> IF id # Undefined THEN MapSet(m, id, Len(list)) ELSE m,
               err |-> NoError]
    ELSE [list |-> list, map |-> m, err |-> InvalidItem]

\* the for loop of removeItem, had it compared with != in place of !==: ids
\* that convert to the same string are the same id
RECURSIVE removeLoopLoose(_, _, _, _, _, _)
removeLoopLoose(list, h, id, i, tmp, tmpmap) ==
    IF i < Len(list)
    THEN LET itemID == ItemGet(h, list[i + 1], "id") IN
         IF ToPropertyKey(itemID) # ToPropertyKey(id)
         THEN removeLoopLoose(list, h, id, i + 1,
                              Append(tmp, list[i + 1]), MapSet(tmpmap, itemID, i))
         ELSE removeLoopLoose(list, h, id, i + 1, tmp, tmpmap)
    ELSE [list |-> tmp, map |-> tmpmap]

\* the for loop of removeItem from index i (0-based) on
RECURSIVE removeLoop(_, _, _, _, _, _)
removeLoop(list, h, id, i, tmp, tmpmap) ==
    IF i < Len(list)
    THEN LET itemID == ItemGet(h, list[i + 1], "id") IN
         IF itemID # id
         THEN removeLoop(list, h, id, i + 1,
                         Append(tmp, list[i + 1]), MapSet(tmpmap, itemID, i))
         ELSE removeLoop(list, h, id, i + 1, tmp, tmpmap)
    ELSE [list |-> tmp, map |-> tmpmap]

\* removeItem( id ), had its loop started at index 1
removeItemFromOne(list, h, id) == removeLoop(list, h, id, 1, <<>>, EmptyMap)

\* removeItem( id )
removeItem(list, h, id) == removeLoop(list, h, id, 0, <<>>, EmptyMap)

\* the linear scan of getItem from index i (0-based) on
RECURSIVE scanLoop(_, _, _, _, _, _)
scanLoop(list, h, key, value, defreturn, i) ==
    IF i < Len(list)
    THEN IF ItemGet(h, list[i + 1], key) = value
         THEN Ref(list[i + 1])
         ELSE scanLoop(list, h, key, value, defreturn, i + 1)
    ELSE defreturn

\* getItem( key, value, defreturn ), had it returned defreturn for a position
\* that holds no item
getItemDefault(list, m, h, key, value, defreturn) ==
    IF key = "idx"
    THEN LET k == IF value = Num(-1)
                  THEN Num(IF (Len(list) - 1) < 0 THEN 0 ELSE Len(list) - 1)
                  ELSE value
         IN  IF ArrayGet(list, k) = Undefined THEN defreturn ELSE ArrayGet(list, k)
    ELSE IF key = "id" /\ MapGet(m, Str(key)) # Undefined
         THEN ArrayGet(list, MapGet(m, Str(key)))
         ELSE scanLoop(list, h, key, value, defreturn, 0)

\* getItem( key, value, defreturn )
getItem(list, m, h, key, value, defreturn) ==
    IF key = "idx"
    THEN IF value = Num(-1)
         THEN LET k == IF (Len(list) - 1) < 0 THEN 0 ELSE Len(list) - 1
              IN  ArrayGet(list, Num(k))
         ELSE ArrayGet(list, value)
    ELSE IF key = "id" /\ MapGet(m, Str(key)) # Undefined
         THEN ArrayGet(list, MapGet(m, Str(key)))
         ELSE scanLoop(list, h, key, value, defreturn, 0)

(***************************************************************************)
(* loadItems / saveItem and their callbacks                                *)
(***************************************************************************)
\* the for loop of the success callback of loadItems over obj.result.list,
\* from index i (0-based) on; an Error thrown by addItem ends the callback
RECURSIVE loadLoop(_, _, _, _, _)
loadLoop(list, m, h, recs, i) ==
    IF i < Len(recs)
    THEN LET h1 == NewItem(h, recs[i + 1], FALSE)
             res == addItem(list, m, h1, Ref(NewSlot(h)))
         IN  IF res.err # NoError
             THEN [list |-> list, map |-> m, heap |-> h, err |-> res.err, loaded |-> FALSE]
             ELSE loadLoop(res.list, res.map, h1, recs, i + 1)
    ELSE [list |-> list, map |-> m, heap |-> h, err |-> NoError, loaded |-> TRUE]

\* pend without its i-th request
Without(pend, i) == SubSeq(pend, 1, i - 1) \o SubSeq(pend, i + 1, Len(pend))

\* a request in flight: a load, or the save of an item; raced tells that a load
\* has been in flight together with another load
LoadRequest == [kind |-> "load", item |-> 0, raced |-> FALSE]
SaveRequest(r) == [kind |-> "save", item |-> r, raced |-> FALSE]
InFlight(pend, kind) == {i \in 1..Len(pend) : pend[i].kind = kind}
\* pend after one more load is dispatched: loads in flight together have raced
Dispatched(pend) ==
    IF InFlight(pend, "load") = {}
    THEN Append(pend, LoadRequest)
    ELSE [i \in 1..Len(pend) |->
             IF pend[i].kind = "load" THEN [pend[i] EXCEPT !.raced = TRUE] ELSE pend[i]]
         \o <<[LoadRequest EXCEPT !.raced = TRUE]>>
\* no load started yet
NoLoads == [latest |-> "none", raced |-> 0]
\* the i-th request is the load that was started last
IsLatest(pend, l, i) ==
    l.latest = "running" /\ \A j \in InFlight(pend, "load") : j <= i
\* the history after the callback of the i-th request, a load, has ended
Settled(pend, l, i, outcome, success) ==
    [latest |-> IF IsLatest(pend, l, i) THEN outcome ELSE l.latest,
     raced |-> IF success /\ pend[i].raced /\ l.raced < MaxLoads
               THEN l.raced + 1 ELSE l.raced]

\* the result lists a load response can carry: the ids of its records
RecordIds == {Num(1), Str("1"), Str("id")}
RecordLists == UNION {[1..k -> RecordIds] : k \in 0..MaxRecords}
\* what a caller passes to getItem: with key "idx" a position or what stands for
\* one, with the key of a property a value to look for
IdxValues == {Num(k) : k \in -2..MaxItems} \cup {Str("1")}
GetArgs == ({"idx"} \X IdxValues) \cup ({"id", "name"} \X Ids)
LiveSlots == {r \in Slots : heap[r].used}

(***************************************************************************)
(* _buildParams                                                            *)
(***************************************************************************)
\* a reference to the plain object k of the caller
Obj(k) == [t |-> "object", n |-> k, s |-> ""]

\* o[ key ] of a plain object o: a function from its own keys to their values
ObjGet(o, key) == IF key \in DOMAIN o THEN o[key] ELSE Undefined

\* o after o[ key ] = value
ObjSet(o, key, value) ==
    [k \in DOMAIN o \cup {key} |-> IF k = key THEN value ELSE o[k]]

\* requestParams as the caller passes it: left out (false) or an object
NoParams == [given |-> FALSE, props |-> EmptyMap]
Params(o) == [given |-> TRUE, props |-> o]

\* The first loop of _buildParams, had it compared with == in place of ===:
\* null is undefined too
keepDefaultsLoose(defaultParams, requestParams) ==
    [keyA \in {k \in DOMAIN defaultParams :
                  ObjGet(requestParams, k) \in {Undefined, Null}} |->
        defaultParams[keyA]]

\* The first loop of _buildParams: the defaults requestParams leaves undefined
keepDefaults(defaultParams, requestParams) ==
    [keyA \in {k \in DOMAIN defaultParams : ObjGet(requestParams, k) = Undefined} |->
        defaultParams[keyA]]

\* The second loop of Generic/Manager.js: the entries of requestParams that
\* are not null are set
setParams(obj, requestParams) ==
    [k \in DOMAIN obj \cup {keyB \in DOMAIN requestParams : requestParams[keyB] # Null} |->
        IF k \in DOMAIN requestParams /\ requestParams[k] # Null
        THEN requestParams[k] ELSE obj[k]]

\* The second loop of Generic_Manager.js, had it no branch for null: every
\* entry is set
setParamsOldAll(obj, requestParams) ==
    [k \in DOMAIN obj \cup DOMAIN requestParams |->
        IF k \in DOMAIN requestParams THEN requestParams[k] ELSE obj[k]]

\* The second loop of Generic_Manager.js: an entry that is null is left out
\* ("reset, dont use!"), any other is set
setParamsOld(obj, requestParams) ==
    [k \in DOMAIN obj \cup {key \in DOMAIN requestParams : ~(requestParams[key] = Null)} |->
        IF k \in DOMAIN requestParams /\ ~(requestParams[k] = Null)
        THEN requestParams[k] ELSE obj[k]]

\* _buildParams, had it set obj.data before its loops
_buildParamsDataFirst(defaultParams, dataParams, requestParams) ==
    IF requestParams.given
    THEN [result |-> setParams(ObjSet(keepDefaults(defaultParams, requestParams.props),
                                      "data", dataParams),
                               requestParams.props),
          defaults |-> defaultParams]
    ELSE [result |-> ObjSet(defaultParams, "data", dataParams),
          defaults |-> ObjSet(defaultParams, "data", dataParams)]

\* _buildParams( defaultParams, dataParams, requestParams ) of
\* Generic/Manager.js: the object returned, and defaultParams after the call
\* (without requestParams the object returned is defaultParams itself)
_buildParams(defaultParams, dataParams, requestParams) ==
    IF requestParams.given
    THEN [result |-> ObjSet(setParams(keepDefaults(defaultParams, requestParams.props),
                                      requestParams.props),
                            "data", dataParams),
          defaults |-> defaultParams]
    ELSE [result |-> ObjSet(defaultParams, "data", dataParams),
          defaults |-> ObjSet(defaultParams, "data", dataParams)]

\* _buildParams of Generic_Manager.js
_buildParamsOld(defaultParams, dataParams, requestParams) ==
    IF requestParams.given
    THEN [result |-> ObjSet(setParamsOld(keepDefaults(defaultParams, requestParams.props),
                                         requestParams.props),
                            "data", dataParams),
          defaults |-> defaultParams]
    ELSE [result |-> ObjSet(defaultParams, "data", dataParams),
          defaults |-> ObjSet(defaultParams, "data", dataParams)]

\* The arguments the calls are made with
Objects(keys, values) == UNION {[K -> values] : K \in SUBSET keys}
DefaultParams == Objects({"a", "b", "data"}, {Num(1), Num(2)})
DataParams == {Obj(1), Obj(2)}
RequestParams ==
    {NoParams} \cup {Params(o) : o \in Objects({"b", "c", "data"}, {Num(3), Num(4), Null, Undefined})}

\* No call made yet: the arguments are chosen, nothing is returned
BpCall(d, data, rp) ==
    [file |-> "", defaultParams |-> d, dataParams |-> data, requestParams |-> rp,
     result |-> EmptyMap, defaults |-> d]
BpIdle == BpCall(EmptyMap, Undefined, NoParams)

(***************************************************************************)
(* Actions                                                                 *)
(***************************************************************************)
Init ==
    /\ itemList = <<>>
    /\ map = EmptyMap
    /\ isLoaded = FALSE
    /\ heap = [r \in Slots |-> FreeSlot]
    /\ pending = <<>>
    /\ edits = 0
    /\ last = Outcome("new", <<>>, Undefined, NoError)
    /\ loads = NoLoads
    /\ bp = BpIdle

\* manager.addItem( manager.createItem( {id: id} ) )
AddNewItem(id) ==
    LET h1 == NewItem(heap, id, FALSE)
        res == addItem(itemList, map, h1, Ref(NewSlot(heap)))
        gc == Collect(h1, res.list, pending)
    IN  /\ Len(res.list) <= MaxItems
        /\ itemList' = gc.list
        /\ map' = res.map
        /\ heap' = gc.heap
        /\ pending' = gc.pending
        /\ last' = Outcome("addItem", <<id>>, Undefined, res.err)
        /\ UNCHANGED <<isLoaded, edits, loads, bp>>

\* manager.addItem( item ) with an item the caller got from the manager
AddHeldItem(r) ==
    LET res == addItem(itemList, map, heap, Ref(r))
        gc == Collect(heap, res.list, pending)
    IN  /\ r \in LiveSlots
        /\ Len(res.list) <= MaxItems
        /\ itemList' = gc.list
        /\ map' = res.map
        /\ heap' = gc.heap
        /\ pending' = gc.pending
        /\ last' = Outcome("addItem", <<heap[r].id>>, Undefined, res.err)
        /\ UNCHANGED <<isLoaded, edits, loads, bp>>

\* manager.addItem( x ) with x not a Mumsys_Generic_Item
AddInvalidItem ==
    LET res == addItem(itemList, map, heap, Undefined)
    IN  /\ itemList' = res.list
        /\ map' = res.map
        /\ last' = Outcome("addItem", <<>>, Undefined, res.err)
        /\ UNCHANGED <<isLoaded, heap, pending, edits, loads, bp>>

RemoveItem(id) ==
    LET res == removeItem(itemList, heap, id)
        gc == Collect(heap, res.list, pending)
    IN  /\ itemList' = gc.list
        /\ map' = res.map
        /\ heap' = gc.heap
        /\ pending' = gc.pending
        /\ last' = Outcome("removeItem", <<id>>, Undefined, NoError)
        /\ UNCHANGED <<isLoaded, edits, loads, bp>>

\* clear(), had it left the map as it was
ClearListOnly ==
    LET gc == Collect(heap, <<>>, pending)
    IN  /\ itemList' = gc.list
        /\ map' = map
        /\ heap' = gc.heap
        /\ pending' = gc.pending
        /\ last' = Outcome("clear", <<>>, Undefined, NoError)
        /\ UNCHANGED <<isLoaded, edits, loads, bp>>

Clear ==
    LET gc == Collect(heap, <<>>, pending)
    IN  /\ itemList' = gc.list
        /\ map' = EmptyMap
        /\ heap' = gc.heap
        /\ pending' = gc.pending
        /\ last' = Outcome("clear", <<>>, Undefined, NoError)
        /\ UNCHANGED <<isLoaded, edits, loads, bp>>

GetItem(key, value, defreturn) ==
    /\ last' = Outcome("getItem", <<Str(key), value, defreturn>>,
                       getItem(itemList, map, heap, key, value, defreturn), NoError)
    /\ UNCHANGED <<itemList, map, isLoaded, heap, pending, edits, loads, bp>>

\* the caller edits an item it got from the manager: item.setModified( true )
TouchItem(r) ==
    /\ r \in LiveSlots
    /\ edits < MaxEdits
    /\ edits' = edits + 1
    /\ heap' = ItemSetModified(heap, r, TRUE)
    /\ last' = Outcome("setModified", <<>>, Undefined, NoError)
    /\ UNCHANGED <<itemList, map, isLoaded, pending, loads, bp>>

\* loadItems( data ): resets the flag and dispatches the request
LoadItems ==
    /\ Cardinality(InFlight(pending, "load")) < MaxLoads
    /\ isLoaded' = FALSE
    /\ pending' = Dispatched(pending)
    /\ loads' = [latest |-> "running",
                 raced |-> IF InFlight(pending, "load") = {} THEN 0 ELSE loads.raced]
    /\ last' = Outcome("loadItems", <<>>, Undefined, NoError)
    /\ UNCHANGED <<itemList, map, heap, edits, bp>>

\* the success callback of the i-th request, a load, with a valid response
LoadSuccess(i, recs) ==
    /\ i \in 1..Len(pending)
    /\ pending[i].kind = "load"
    /\ Len(itemList) + Len(recs) <= MaxItems
    /\ LET res == loadLoop(itemList, map, heap, recs, 0)
           gc == Collect(res.heap, res.list, Without(pending, i))
       IN  /\ itemList' = gc.list
           /\ map' = res.map
           /\ heap' = gc.heap
           /\ pending' = gc.pending
           /\ isLoaded' = (IF res.loaded THEN TRUE ELSE isLoaded)
           /\ loads' = Settled(pending, loads, i,
                               IF res.loaded THEN "loaded" ELSE "failed", TRUE)
           /\ last' = Outcome("loadItems.success", recs, Undefined, res.err)
    /\ UNCHANGED <<edits, bp>>

\* the failing callback, had it set the loaded flag before it validates the
\* response
LoadFailureLoaded(i, op) ==
    /\ i \in 1..Len(pending)
    /\ pending[i].kind = "load"
    /\ pending' = Without(pending, i)
    /\ isLoaded' = TRUE
    /\ loads' = Settled(pending, loads, i, "failed", FALSE)
    /\ last' = Outcome(op, <<>>, Undefined, RemoteError)
    /\ UNCHANGED <<itemList, map, heap, edits, bp>>

\* the success callback with a response the validator rejects, or the error
\* callback: Mumsys.checkJsonRpcResponce throws before anything is touched
LoadFailure(i, op) ==
    /\ i \in 1..Len(pending)
    /\ pending[i].kind = "load"
    /\ pending' = Without(pending, i)
    /\ loads' = Settled(pending, loads, i, "failed", FALSE)
    /\ last' = Outcome(op, <<>>, Undefined, RemoteError)
    /\ UNCHANGED <<itemList, map, isLoaded, heap, edits, bp>>

\* params.item: what the caller put there, what saveItem puts there
\* (item.getProperties()), or nothing
CallerItem == Obj(1)
Properties == Obj(0)
ParamsItem(paramsHasItem) == IF paramsHasItem THEN CallerItem ELSE Undefined

\* saveItem, had it sent the item whether modified or not
saveItemAlways(h, pend, r, paramsHasItem) ==
    IF paramsHasItem
    THEN [heap |-> h, pending |-> pend, paramsItem |-> ParamsItem(paramsHasItem),
          ret |-> Undefined, err |-> ReservedKey]
    ELSE [heap |-> ItemSetModified(h, r, FALSE),
          pending |-> Append(pend, SaveRequest(r)),
          paramsItem |-> Properties,
          ret |-> Ref(r), err |-> NoError]

\* saveItem, had it looked at params.item only for an item it does not send
saveItemLateCheck(h, pend, r, paramsHasItem) ==
    IF ItemIsModified(h, r)
    THEN [heap |-> ItemSetModified(h, r, FALSE),
          pending |-> Append(pend, SaveRequest(r)),
          paramsItem |-> Properties,
          ret |-> Ref(r), err |-> NoError]
    ELSE IF paramsHasItem
         THEN [heap |-> h, pending |-> pend, paramsItem |-> ParamsItem(paramsHasItem),
               ret |-> Undefined, err |-> ReservedKey]
         ELSE [heap |-> h, pending |-> pend, paramsItem |-> ParamsItem(paramsHasItem),
               ret |-> Ref(r), err |-> NoError]

\* saveItem, had it left the modified flag for the done callback to clear
saveItemKeepDirty(h, pend, r, paramsHasItem) ==
    IF paramsHasItem
    THEN [heap |-> h, pending |-> pend, paramsItem |-> ParamsItem(paramsHasItem),
          ret |-> Undefined, err |-> ReservedKey]
    ELSE IF ItemIsModified(h, r)
         THEN [heap |-> h,
               pending |-> Append(pend, SaveRequest(r)),
               paramsItem |-> Properties,
               ret |-> Ref(r), err |-> NoError]
         ELSE [heap |-> h, pending |-> pend, paramsItem |-> ParamsItem(paramsHasItem),
               ret |-> Ref(r), err |-> NoError]

\* saveItem( item, params ) on heap h: the heap, the requests, params.item after
\* the call and the outcome
saveItem(h, pend, r, paramsHasItem) ==
    IF paramsHasItem
    THEN [heap |-> h, pending |-> pend, paramsItem |-> ParamsItem(paramsHasItem),
          ret |-> Undefined, err |-> ReservedKey]
    ELSE IF ItemIsModified(h, r)
         THEN [heap |-> ItemSetModified(h, r, FALSE),
               pending |-> Append(pend, SaveRequest(r)),
               paramsItem |-> Properties,
               ret |-> Ref(r), err |-> NoError]
         ELSE [heap |-> h, pending |-> pend, paramsItem |-> ParamsItem(paramsHasItem),
               ret |-> Ref(r), err |-> NoError]

\* manager.saveItem( item, params ) with an item the caller got from the
\* manager; the outcome keeps the item, and params.item before and after
SaveHeldItem(r, paramsHasItem) ==
    LET res == saveItem(heap, pending, r, paramsHasItem)
    IN  /\ r \in LiveSlots
        /\ Cardinality(InFlight(res.pending, "save")) <= MaxPending
        /\ heap' = res.heap
        /\ pending' = res.pending
        /\ last' = Outcome("saveItem",
                           <<Ref(r), ParamsItem(paramsHasItem), res.paramsItem>>,
                           res.ret, res.err)
        /\ UNCHANGED <<itemList, map, isLoaded, edits, loads, bp>>

\* the done callback of the i-th request, a save, with a valid response whose
\* result.item.id is id
SaveDone(i, id) ==
    /\ i \in 1..Len(pending)
    /\ pending[i].kind = "save"
    /\ LET h1 == IF id # Undefined THEN ItemSetId(heap, pending[i].item, id) ELSE heap
           gc == Collect(h1, itemList, Without(pending, i))
       IN  /\ itemList' = gc.list
           /\ heap' = gc.heap
           /\ pending' = gc.pending
    /\ last' = Outcome("saveItem.done", <<>>, Undefined, NoError)
    /\ UNCHANGED <<map, isLoaded, edits, loads, bp>>

\* the done callback with a response the validator rejects, or a failed request
SaveFailure(i) ==
    /\ i \in 1..Len(pending)
    /\ pending[i].kind = "save"
    /\ LET gc == Collect(heap, itemList, Without(pending, i))
       IN  /\ itemList' = gc.list
           /\ heap' = gc.heap
           /\ pending' = gc.pending
    /\ last' = Outcome("saveItem.fail", <<>>, Undefined, RemoteError)
    /\ UNCHANGED <<map, isLoaded, edits, loads, bp>>

Next ==
    \/ \E id \in Ids : AddNewItem(id)
    \/ \E r \in Slots : AddHeldItem(r)
    \/ AddInvalidItem
    \/ \E id \in Ids : RemoveItem(id)
    \/ Clear
    \/ \E a \in GetArgs : GetItem(a[1], a[2], Null)
    \/ \E r \in Slots : TouchItem(r)
    \/ LoadItems
    \/ \E i \in 1..Len(pending), recs \in RecordLists : LoadSuccess(i, recs)
    \/ \E i \in 1..Len(pending), op \in {"loadItems.success", "loadItems.error"} :
          LoadFailure(i, op)
    \/ \E r \in Slots, p \in BOOLEAN : SaveHeldItem(r, p)
    \/ \E i \in 1..Len(pending), id \in ServerIds : SaveDone(i, id)
    \/ \E i \in 1..Len(pending) : SaveFailure(i)

Spec == Init /\ [][Next]_vars

\* The collection and the save round trips that change the id of a held item.
\* The success callback of loadItems changes the collection through addItem
\* alone, one record after the other, as a caller adding the same items does.
NextColl ==
    \/ \E id \in Ids : AddNewItem(id)
    \/ \E r \in Slots : AddHeldItem(r)
    \/ \E id \in Ids : RemoveItem(id)
    \/ Clear
    \/ \E r \in Slots : TouchItem(r)
    \/ \E r \in Slots : SaveHeldItem(r, FALSE)
    \/ \E i \in 1..Len(pending), id \in ServerIds : SaveDone(i, id)

SpecColl == Init /\ [][NextColl]_vars

\* _buildParams on its own: the arguments are chosen at the start, then either
\* copy of the function is applied to them.
InitBP ==
    /\ itemList = <<>>
    /\ map = EmptyMap
    /\ isLoaded = FALSE
    /\ heap = [r \in Slots |-> FreeSlot]
    /\ pending = <<>>
    /\ edits = 0
    /\ last = Outcome("new", <<>>, Undefined, NoError)
    /\ loads = NoLoads
    /\ \E d \in DefaultParams, data \in DataParams, rp \in RequestParams :
          bp = BpCall(d, data, rp)

BuildParams ==
    LET res == _buildParams(bp.defaultParams, bp.dataParams, bp.requestParams)
    IN  /\ bp.file = ""
        /\ bp' = [bp EXCEPT !.file = "Generic/Manager.js",
                            !.result = res.result, !.defaults = res.defaults]
        /\ UNCHANGED <<itemList, map, isLoaded, heap, pending, edits, last, loads>>

BuildParamsOld ==
    LET res == _buildParamsOld(bp.defaultParams, bp.dataParams, bp.requestParams)
    IN  /\ bp.file = ""
        /\ bp' = [bp EXCEPT !.file = "Generic_Manager.js",
                            !.result = res.result, !.defaults = res.defaults]
        /\ UNCHANGED <<itemList, map, isLoaded, heap, pending, edits, last, loads>>

NextBP == BuildParams \/ BuildParamsOld

SpecBP == InitBP /\ [][NextBP]_vars

\* loadItems and its callbacks, loads in flight together included.  The items
\* with an id come from the server; the caller adds new items, which have no
\* id until the done callback of their saveItem sets it.
NextLoad ==
    \/ AddNewItem(Undefined)
    \/ Clear
    \/ \E r \in Slots : TouchItem(r)
    \/ \E r \in Slots : SaveHeldItem(r, FALSE)
    \/ \E i \in 1..Len(pending), id \in ServerIds : SaveDone(i, id)
    \/ LoadItems
    \/ \E i \in 1..Len(pending), recs \in RecordLists : LoadSuccess(i, recs)
    \/ \E i \in 1..Len(pending), op \in {"loadItems.success", "loadItems.error"} :
          LoadFailure(i, op)

SpecLoad == Init /\ [][NextLoad]_vars

\* saveItem and its callbacks, on the items addItem holds.
NextSave ==
    \/ \E id \in Ids : AddNewItem(id)
    \/ Clear
    \/ \E r \in Slots : TouchItem(r)
    \/ \E r \in Slots, p \in BOOLEAN : SaveHeldItem(r, p)
    \/ \E i \in 1..Len(pending), id \in ServerIds : SaveDone(i, id)
    \/ \E i \in 1..Len(pending) : SaveFailure(i)

SpecSave == Init /\ [][NextSave]_vars

\* The queries, on the collections addItem, removeItem and clear build.
NextGet ==
    \/ \E id \in Ids : AddNewItem(id)
    \/ \E r \in Slots : AddHeldItem(r)
    \/ \E id \in Ids : RemoveItem(id)
    \/ Clear
    \/ \E a \in GetArgs : GetItem(a[1], a[2], Null)

SpecGet == Init /\ [][NextGet]_vars

(***************************************************************************)
(* Properties                                                              *)
(***************************************************************************)
\* the id of the item at position i (1-based) of the list
IdAt(i) == heap[itemList[i]].id
\* an item with this id is in the collection
Holds(id) == \E i \in 1..Len(itemList) : IdAt(i) = id
\* the last call was addItem with an item of a defined id
AddedWithId(l) == l.op = "addItem" /\ Len(l.args) = 1 /\ l.args[1] # Undefined

\* C1: in every reachable state the index agrees with the list: every held item
\* with a defined id is indexed at its position, and every key of the index is
\* the id of the item held at the position it maps to.
C1_IndexConsistent ==
    /\ \A i \in 1..Len(itemList) :
          IdAt(i) # Undefined =>
             /\ ToPropertyKey(IdAt(i)) \in DOMAIN map
             /\ map[ToPropertyKey(IdAt(i))] = i - 1
    /\ \A k \in DOMAIN map :
          /\ map[k] < Len(itemList)
          /\ IdAt(map[k] + 1) # Undefined
          /\ ToPropertyKey(IdAt(map[k] + 1)) = k

\* C2: addItem of an item whose defined id is the id of a held item throws the
\* duplicate error and changes neither the list nor the index.
C2_DuplicateRejected ==
    [][(AddedWithId(last') /\ Holds(last'.args[1]))
         => (last'.err = DuplicateKey /\ itemList' = itemList /\ map' = map)]_vars

\* C3: addItem of an item whose defined id is not (===) the id of any held item
\* throws nothing, makes the list one longer with the new item last, and leaves
\* the items held before where they were.
C3_FreshIdAdded ==
    [][(AddedWithId(last') /\ ~Holds(last'.args[1]))
         => /\ last'.err = NoError
            /\ Len(itemList') = Len(itemList) + 1
            /\ heap'[itemList'[Len(itemList')]].id = last'.args[1]
            /\ \A i \in 1..Len(itemList) :
                  itemList'[i] = itemList[i] /\ heap'[itemList'[i]] = heap[itemList[i]]]_vars

\* the first held item, in insertion order, whose property key is value
FirstMatch(key, value, defreturn) ==
    IF \E i \in 1..Len(itemList) : ItemGet(heap, itemList[i], key) = value
    THEN Ref(itemList[CHOOSE i \in 1..Len(itemList) :
                 /\ ItemGet(heap, itemList[i], key) = value
                 /\ \A j \in 1..(i - 1) : ItemGet(heap, itemList[j], key) # value])
    ELSE defreturn

\* C4: for every key but "idx", "id" included, getItem( key, value, def )
\* returns the first held item whose property key is value, and def when there
\* is none.
C4_GetItemFirstMatch ==
    (last.op = "getItem" /\ last.args[1] # Str("idx"))
        => last.ret = FirstMatch(last.args[1].s, last.args[2], last.args[3])

\* C5: removeItem( id ) leaves exactly the items whose id is not (===) id, in
\* the order they had, and getItem( "idx", k ) then returns the k-th of them.
C5_RemoveKeepsOrder ==
    [][last'.op = "removeItem"
         => LET rest == SelectSeq(itemList, LAMBDA r : heap[r].id # last'.args[1])
            IN  /\ Len(itemList') = Len(rest)
                /\ \A k \in 1..Len(rest) : heap'[itemList'[k]] = heap[rest[k]]
                /\ \A j, k \in 1..Len(rest) :
                      (itemList'[j] = itemList'[k]) <=> (rest[j] = rest[k])
                /\ \A k \in 0..(Len(rest) - 1) :
                      getItem(itemList', map', heap', "idx", Num(k), Null)
                         = Ref(itemList'[k + 1])]_vars

\* C5 witness: the middle one of three items has just been removed (the index
\* still carries the positions 0 and 2 the two others had)
C5_Witness ==
    /\ last.op = "removeItem"
    /\ Len(itemList) = 2
    /\ {map[k] : k \in DOMAIN map} = {0, 2}
    /\ getItem(itemList, map, heap, "idx", Num(1), Null) = Ref(itemList[2])

\* C6: removeItem with an id no held item has (===), a stored id of another
\* type included, throws nothing and leaves the list as it was.
C6_RemoveNoMatch ==
    [][(last'.op = "removeItem" /\ ~Holds(last'.args[1]))
         => /\ last'.err = NoError
            /\ itemList' = itemList
            /\ \A i \in 1..Len(itemList) : heap'[itemList'[i]] = heap[itemList[i]]]_vars

\* C6 witness: removeItem( "1" ) has run on a full list that holds the id 1
C6_Witness ==
    /\ last.op = "removeItem"
    /\ last.args = <<Str("1")>>
    /\ Len(itemList) = MaxItems
    /\ Holds(Num(1))

\* C7: getItem( "idx", -1 ) returns the last item, undefined on an empty list;
\* getItem( "idx", n ) returns the item at position n, undefined (never the
\* default, never an error) when there is none.
C7_GetItemIdx ==
    (last.op = "getItem" /\ last.args[1] = Str("idx") /\ last.args[2].t = "number")
        => /\ last.err = NoError
           /\ last.ret =
                 IF last.args[2].n = -1
                 THEN IF Len(itemList) > 0 THEN Ref(itemList[Len(itemList)]) ELSE Undefined
                 ELSE IF last.args[2].n \in 0..(Len(itemList) - 1)
                      THEN Ref(itemList[last.args[2].n + 1])
                      ELSE Undefined

\* C7 witness: getItem( "idx", -1 ) on three items returned the third
C7_Witness ==
    /\ last.op = "getItem"
    /\ last.args = <<Str("idx"), Num(-1), Null>>
    /\ Cardinality({itemList[i] : i \in 1..Len(itemList)}) = 3
    /\ last.ret = Ref(itemList[3])

\* C8: after clear() the list and the index are empty, and an item of any id
\* can be added without error.
C8_ClearEmpties ==
    last.op = "clear"
        => /\ itemList = <<>>
           /\ map = EmptyMap
           /\ \A id \in Ids :
                 LET res == addItem(itemList, map, NewItem(heap, id, FALSE),
                                    Ref(NewSlot(heap)))
                 IN  res.err = NoError /\ Len(res.list) = 1

\* C8 witness: clear() has run while the save of an item with an id, held
\* before, is still in flight
C8_Witness ==
    /\ last.op = "clear"
    /\ Len(pending) = 1
    /\ pending[1].kind = "save"
    /\ heap[pending[1].item].id # Undefined

\* C9: with requestParams given and none of its values null, the object
\* returned has the keys of defaultParams, of requestParams and "data"; a key
\* has the value of requestParams where requestParams has it, of defaultParams
\* otherwise, and "data" is dataParams whatever the two say.
C9_Merge ==
    (/\ bp.file = "Generic/Manager.js"
     /\ bp.requestParams.given
     /\ \A k \in DOMAIN bp.requestParams.props : bp.requestParams.props[k] # Null)
        => /\ DOMAIN bp.result =
                 DOMAIN bp.defaultParams \cup DOMAIN bp.requestParams.props \cup {"data"}
           /\ \A k \in DOMAIN bp.result :
                 bp.result[k] =
                    IF k = "data" THEN bp.dataParams
                    ELSE IF k \in DOMAIN bp.requestParams.props
                         THEN bp.requestParams.props[k]
                         ELSE bp.defaultParams[k]

\* C9 witness: defaults {a:1, b:2}, requestParams {b:3, c:4}
C9_Witness ==
    /\ bp.file = "Generic/Manager.js"
    /\ bp.defaultParams = [k \in {"a", "b"} |-> IF k = "a" THEN Num(1) ELSE Num(2)]
    /\ bp.requestParams = Params([k \in {"b", "c"} |-> IF k = "b" THEN Num(3) ELSE Num(4)])
    /\ bp.result = [k \in {"a", "b", "c", "data"} |->
                       CASE k = "a" -> Num(1) [] k = "b" -> Num(3)
                         [] k = "c" -> Num(4) [] OTHER -> bp.dataParams]

\* C10 as claimed: a null in requestParams leaves the default in place.
C10_NullKeepsDefault ==
    (bp.file # "" /\ bp.requestParams.given)
        => \A k \in DOMAIN bp.defaultParams \cap DOMAIN bp.requestParams.props :
              bp.requestParams.props[k] = Null
                 => (k \in DOMAIN bp.result /\ bp.result[k] = bp.defaultParams[k])

\* C10 as the code has it, in both copies: a null in requestParams under a key
\* other than "data" removes the key, the default with it.
C10_NullResetsKey ==
    (bp.file # "" /\ bp.requestParams.given)
        => \A k \in DOMAIN bp.requestParams.props :
              (bp.requestParams.props[k] = Null /\ k # "data")
                 => k \notin DOMAIN bp.result

\* C10 witness: a call with a default for "b" and a null for "b"
C10_Witness ==
    /\ bp.file # ""
    /\ bp.requestParams.given
    /\ "b" \in DOMAIN bp.defaultParams
    /\ "b" \in DOMAIN bp.requestParams.props
    /\ bp.requestParams.props["b"] = Null
    /\ "b" \notin DOMAIN bp.result

\* C11: _buildParams changes none of its arguments: after the call, with or
\* without requestParams, defaultParams is the object it was before the call
\* (it has gained no "data" entry).
C11_DefaultsUntouched ==
    bp.file = "Generic/Manager.js" => bp.defaults = bp.defaultParams

\* the last call was saveItem( item r, params ), params.item being v before it
SavedWith(l, r, v) == l.op = "saveItem" /\ l.args[1] = Ref(r) /\ l.args[2] = v
\* a step that leaves the collection and the loaded flag as they were
CollectionUnchanged == itemList' = itemList /\ map' = map /\ isLoaded' = isLoaded

\* C12: saveItem on an item that is not modified sends no request, returns the
\* item it was given, and changes neither the item, nor params, nor the
\* collection.
C12_UnmodifiedNotSaved ==
    [][\A r \in Slots :
          (SavedWith(last', r, Undefined) /\ ~ItemIsModified(heap, r))
             => /\ pending' = pending
                /\ last'.ret = Ref(r)
                /\ last'.err = NoError
                /\ heap' = heap
                /\ last'.args[3] = Undefined
                /\ CollectionUnchanged]_vars

\* C12 witness: saveItem has returned a held, unmodified item; nothing is in
\* flight and params has no item
C12_Witness ==
    /\ last.op = "saveItem"
    /\ last.err = NoError
    /\ last.ret = last.args[1]
    /\ last.args[3] = Undefined
    /\ pending = <<>>
    /\ \E i \in 1..Len(itemList) :
          Ref(itemList[i]) = last.ret /\ ~ItemIsModified(heap, itemList[i])

\* C13: saveItem with params that has an item entry throws the invalid
\* argument error and sends nothing, for a modified item as for an unmodified
\* one; the item keeps its modified flag and params its item entry.
C13_ReservedKeyRejected ==
    [][\A r \in Slots :
          SavedWith(last', r, CallerItem)
             => /\ last'.err = ReservedKey
                /\ pending' = pending
                /\ heap' = heap
                /\ last'.args[3] = CallerItem
                /\ CollectionUnchanged]_vars

\* C13 witness: saveItem has thrown for a held item that is modified, and still
\* is; nothing is in flight
C13_Witness ==
    /\ last.op = "saveItem"
    /\ last.err = ReservedKey
    /\ last.args[2] = CallerItem
    /\ pending = <<>>
    /\ \E i \in 1..Len(itemList) :
          Ref(itemList[i]) = last.args[1] /\ ItemIsModified(heap, itemList[i])

\* the last callback was the success callback of a load, run on a response the
\* validator accepts; last.args is the list of the ids of its records
Loaded(l) == l.op = "loadItems.success" /\ l.err # RemoteError
\* the items held before the step are held after it, where they were
ItemsKept ==
    \A i \in 1..Len(itemList) :
       /\ i <= Len(itemList')
       /\ itemList'[i] = itemList[i]
       /\ heap'[itemList'[i]] = heap[itemList[i]]
\* the first k records have been appended to the list, in their order
Appended(recs, k) ==
    /\ Len(itemList') = Len(itemList) + k
    /\ \A j \in 1..k : heap'[itemList'[Len(itemList) + j]].id = recs[j]

\* C14: the success callback of a load whose records have ids that differ (===)
\* from each other and from the ids of the items held appends one item per
\* record, in the order of the list, behind the items held, which stay where
\* they are; when it has run isLoaded() is true.
C14_LoadAppends ==
    [][(/\ Loaded(last')
        /\ \A j, k \in 1..Len(last'.args) : j # k => last'.args[j] # last'.args[k]
        /\ \A k \in 1..Len(last'.args) : ~Holds(last'.args[k]))
         => /\ last'.err = NoError
            /\ ItemsKept
            /\ Appended(last'.args, Len(last'.args))
            /\ isLoaded' = TRUE]_vars

\* C15: whenever isLoaded() is true, loads in flight together included, the
\* load that was started last has ended with its success callback run to the
\* end.
C15_LoadedMeansLatestLoaded ==
    isLoaded => loads.latest = "loaded"

\* C16: when the done callback of the save of a held item has run on a valid
\* response, the item, unmodified since the dispatch, is not modified, and
\* its id is the result.item.id of the response if the response has one.
C16_SavedItemClean ==
    [][\A i \in 1..Len(pending), id \in ServerIds, k \in 1..Len(itemList) :
          (/\ SaveDone(i, id)
           /\ itemList[k] = pending[i].item
           /\ ~ItemIsModified(heap, itemList[k]))
             => /\ ~ItemIsModified(heap', itemList'[k])
                /\ id # Undefined => heap'[itemList'[k]].id = id]_vars

\* C17: in every reachable state no two items of the list have the same defined
\* id.
C17_IdsUnique ==
    \A i, j \in 1..Len(itemList) :
       (itemList[i] # itemList[j] /\ IdAt(i) # Undefined) => IdAt(i) # IdAt(j)

\* C18: saveItem on a modified item sends the request and clears the modified
\* flag before it returns, the request still in flight; a request that fails
\* changes no item, so the flag stays cleared; and saveItem on the item, not
\* edited since, sends nothing, before the failure as after it.
C18_FlagClearedAtDispatch ==
    [][/\ \A r \in Slots :
             (SavedWith(last', r, Undefined) /\ ItemIsModified(heap, r))
                => /\ ~ItemIsModified(heap', r)
                   /\ pending' = Append(pending, SaveRequest(r))
                   /\ last'.ret = Ref(r)
       /\ last'.op = "saveItem.fail"
             => /\ Len(itemList') = Len(itemList)
                /\ ItemsKept
       /\ \A r \in Slots :
             (SavedWith(last', r, Undefined) /\ ~ItemIsModified(heap, r))
                => pending' = pending]_vars

\* C18 witness: a second saveItem on the item has sent nothing (it has put no
\* item into params) while the request of the first is in flight
C18_Witness ==
    /\ last.op = "saveItem"
    /\ last.err = NoError
    /\ last.args[3] = Undefined
    /\ Len(pending) = 1
    /\ pending[1] = SaveRequest(last.args[1].n)
    /\ ~ItemIsModified(heap, pending[1].item)

\* the map m agrees with the list: every item of the list with a defined id is
\* in m at its position, and every key of m is the id of the item at the
\* position m gives
IndexAgrees(list, m, h) ==
    /\ \A i \in 1..Len(list) :
          h[list[i]].id # Undefined =>
             /\ ToPropertyKey(h[list[i]].id) \in DOMAIN m
             /\ m[ToPropertyKey(h[list[i]].id)] = i - 1
    /\ \A k \in DOMAIN m :
          /\ m[k] < Len(list)
          /\ h[list[m[k] + 1]].id # Undefined
          /\ ToPropertyKey(h[list[m[k] + 1]].id) = k

Clashes(recs, k) == Holds(recs[k]) \/ \E j \in 1..(k - 1) : recs[j] = recs[k]
\* the first such record
FirstClash(recs) ==
    CHOOSE k \in 1..Len(recs) :
       Clashes(recs, k) /\ \A j \in 1..(k - 1) : ~Clashes(recs, j)

\* C20: the success callback of a load whose k-th record is the first with the
\* id of a held item or of an earlier record ends with the duplicate error at
\* that record: the k-1 records before it are in the list and in the index,
\* none after it is, and a loaded flag that was false is false.
C20_AbortAtDuplicate ==
    [][(Loaded(last') /\ \E k \in 1..Len(last'.args) : Clashes(last'.args, k))
          => LET recs == last'.args
                 k == FirstClash(recs)
             IN  /\ last'.err = DuplicateKey
                 /\ ItemsKept
                 /\ Appended(recs, k - 1)
                 /\ \A j \in 1..(k - 1) :
                       MapGet(map', recs[j]) = Num(Len(itemList) + j - 1)
                 /\ ~isLoaded => ~isLoaded']_vars

\* the last callback was a callback of a load that the validator has ended:
\* the error callback, or the success callback on a response it rejects
LoadFailed(l) ==
    l.op \in {"loadItems.success", "loadItems.error"} /\ l.err = RemoteError

HasNull(rp) == rp.given /\ \E k \in DOMAIN rp.props : rp.props[k] = Null

\* C22 as claimed: among the arguments the calls are made with there are
\* defaultParams, dataParams and requestParams with a null for which the
\* _buildParams of the two files return different objects.
C22_CopiesDiffer ==
    bp.file # ""
       => \E d \in DefaultParams, data \in DataParams, rp \in RequestParams :
             /\ HasNull(rp)
             /\ _buildParams(d, data, rp).result # _buildParamsOld(d, data, rp).result

\* C22 as the code has it: whatever the arguments, a null among them or not,
\* the object either file returns, and what it leaves in defaultParams, is what
\* the other file returns and leaves for the same arguments.
C22_CopiesAgree ==
    /\ bp.file = "Generic/Manager.js"
          => LET old == _buildParamsOld(bp.defaultParams, bp.dataParams, bp.requestParams)
             IN  bp.result = old.result /\ bp.defaults = old.defaults
    /\ bp.file = "Generic_Manager.js"
          => LET new == _buildParams(bp.defaultParams, bp.dataParams, bp.requestParams)
             IN  bp.result = new.result /\ bp.defaults = new.defaults

\* C22 witness: Generic_Manager.js has been called with a default for "b" and
\* a null for "b", and has returned an object without "b"
C22_Witness ==
    /\ bp.file = "Generic_Manager.js"
    /\ HasNull(bp.requestParams)
    /\ "b" \in DOMAIN bp.defaultParams
    /\ "b" \in DOMAIN bp.requestParams.props
    /\ bp.requestParams.props["b"] = Null
    /\ "b" \notin DOMAIN bp.result
    /\ bp.result = _buildParams(bp.defaultParams, bp.dataParams, bp.requestParams).result

====
